---- MODULE Spec2Model ----
(***************************************************************************)
(* A model of the memberlist core:                                         *)
(*   - the secret keyring (types/src/secret.rs): SecretKeyring over an     *)
(*     IndexSet of non-primary keys plus a primary key;                    *)
(*   - a cluster of keyrings during a key rotation;                        *)
(*   - the inbound stream dispatcher (core/src/network/async/stream.rs):   *)
(*     handle_conn, send_local_state, merge_remote_state.                  *)
(* Three specifications share the module: Spec (one keyring), SpecRotate   *)
(* (a cluster rotating its key) and SpecStream (concurrent handlers).      *)
(***************************************************************************)
EXTENDS Integers, Sequences, FiniteSets, TLC

\* ------------------------------------------------------------------ bounds
\* Number of distinct secret keys in the universe (TEST_KEYS has three).
NumKeys == 3
\* Longest key iterator handed to with_keys.
MaxInitKeys == 2
\* Nodes of the cluster that rotates its key.
NumNodes == 3
\* Encrypted messages in flight at once.
MaxInFlight == 2
\* Inbound stream connections delivered by the transport.
NumConns == 3
\* MAX_PUSH_PULL_REQUESTS scaled down (the spec's default is 128).
MAX_PUSH_PULL_REQUESTS == 2
\* Largest configured timeout, in ticks; 0 is Duration::ZERO.
MaxTimeout == 2
\* Most pings carried by one compound datagram.
MaxPings == 2
\* Longest message of an ErrorResponse, in characters.
MaxErrLen == 4
\* Largest incarnation and sequence number carried by a request.
MaxInc == 2
MaxSeq == 2

Keys == 1..NumKeys

VARIABLES
  ring,        \* SecretKeyringInner: [primary_key, keys]
  last,        \* the last keyring call: its name, argument, result, ring before
  rings,       \* cluster: node -> SecretKeyringInner
  installed,   \* cluster: nodes on which the operator completed insert(K2)
  switched,    \* cluster: nodes on which the operator completed use_key(K2)
  net,         \* cluster: encrypted messages in flight
  delivery,    \* cluster: the outcome of the last delivery
  delegate,      \* stream: whether self.delegate is Some
  nodes,         \* stream: self.inner.nodes, the membership table
  push_pull_req, \* stream: self.inner.hot.push_pull_req
  pc,            \* stream: where each handle_conn task stands
  req,           \* stream: what read_message returned to each handler
  num_concurrent,\* stream: each handler's local num_concurrent
  local_nodes,   \* stream: each handler's snapshot local_nodes
  out,           \* stream: the messages each handler gave to send_message
  cached,        \* stream: whether the handler called cache_stream
  calls,         \* stream: the delegate callbacks each handler invoked
  merged,        \* stream: whether the handler called merge_state
  path,           \* stream: the exit each handler took
  err_msg,     \* codec: the ErrorResponse being encoded, its err as characters
  buf,         \* codec: the bytes written by encode
  written,     \* codec: what encode returned
  decoded,     \* codec: what decode returned: [readed, err]
  pkt_cfg,     \* packet: [label, compression, encryption] of both ends
  pings,       \* packet: the pings put in one compound datagram
  wire,        \* packet: the datagram on the wire
  subs,        \* packet: the sub-messages decoded and not yet dispatched
  replies,     \* packet: the replies produced, in order
  ppc,         \* packet: where the datagram stands
  broadcasts,  \* table: the queued broadcast of each id
  prev,        \* table: the record of each id before its last accepted one
  pending,     \* table: highest incarnation of a Suspect/Dead about the local
               \* id received since the last outbound broadcast about it
  last_out,    \* table: the last outbound broadcast about the local id, with
               \* the value of pending when it left
  listener,    \* listener: "running" or "exited"
  shutdown,    \* listener: whether the shutdown signal was delivered
  transport,   \* listener: "open", or "failed" when stream().recv() errs
  timeout,     \* self.inner.opts.timeout
  deadline,    \* the timeout set on each connection: <<>> or <<d>>
  stalled,     \* connections whose peer never sends a complete frame
  holds        \* the guard of self.inner.nodes each handler holds between
               \* its steps: "none", "read" or "write"

keyringVars == <<ring, last>>
clusterVars == <<rings, installed, switched, net, delivery>>
streamVars == <<delegate, nodes, push_pull_req, pc, req, num_concurrent,
                local_nodes, out, cached, calls, merged, path>>
codecVars == <<err_msg, buf, written, decoded>>
packetVars == <<pkt_cfg, pings, wire, subs, replies, ppc>>
tableVars == <<broadcasts, prev, pending, last_out>>
listenerVars == <<listener, shutdown, transport>>
timeoutVars == <<timeout, deadline, stalled>>
lockVars == <<holds>>
vars == <<ring, last, rings, installed, switched, net, delivery,
          delegate, nodes, push_pull_req, pc, req, num_concurrent,
          local_nodes, out, cached, calls, merged, path,
          err_msg, buf, written, decoded,
          pkt_cfg, pings, wire, subs, replies, ppc,
          broadcasts, prev, pending, last_out,
          listener, shutdown, transport, timeout, deadline, stalled, holds>>

\* ------------------------------------------------------- sequences helpers
Range(s) == {s[i] : i \in 1..Len(s)}

\* All sequences over S of length at most n.
SeqsUpTo(S, n) == UNION {[1..m -> S] : m \in 0..n}

\* ----------------------------------------------------------------- IndexSet
\* An IndexSet is modelled as a duplicate-free sequence (its iteration order).

\* IndexSet::get / contains
contains(s, k) == k \in Range(s)

\* position of k in s (k is in s)
index_of(s, k) == CHOOSE i \in 1..Len(s) : s[i] = k

\* IndexSet::insert: appends when absent, no-op when present
index_insert(s, k) == IF contains(s, k) THEN s ELSE Append(s, k)

\* IndexSet::shift_remove: removes k, the elements after it shift down
shift_remove(s, k) ==
  IF ~contains(s, k) THEN s
  ELSE LET i == index_of(s, k)
       IN  [j \in 1..(Len(s) - 1) |-> IF j < i THEN s[j] ELSE s[j + 1]]

\* IndexSet::swap_remove: removes k, the last element takes its place
swap_remove(s, k) ==
  IF ~contains(s, k) THEN s
  ELSE LET i == index_of(s, k)
       IN  [j \in 1..(Len(s) - 1) |-> IF j = i THEN s[Len(s)] ELSE s[j]]

\* Iterator::collect into an IndexSet: inserts in iteration order
RECURSIVE collect(_)
collect(ks) ==
  IF ks = <<>> THEN <<>>
  ELSE index_insert(collect(SubSeq(ks, 1, Len(ks) - 1)), ks[Len(ks)])

\* Iterator::filter_map of with_keys: drops the keys equal to the primary
RECURSIVE filter_primary(_, _)
filter_primary(ks, p) ==
  IF ks = <<>> THEN <<>>
  ELSE IF ks[1] = p THEN filter_primary(Tail(ks), p)
       ELSE <<ks[1]>> \o filter_primary(Tail(ks), p)

\* ------------------------------------------------------------ SecretKeyring
\* SecretKeyring::new
new(p) == [primary_key |-> p, keys |-> <<>>]

\* SecretKeyring::with_keys; hint is the iterator's size_hint().0
with_keys(p, ks, hint) ==
  IF hint # 0
    THEN [primary_key |-> p, keys |-> collect(filter_primary(ks, p))]
    ELSE new(p)

\* SecretKeyring::primary_key
primary_key(r) == r.primary_key

\* keys() yielding the primary after the other keys
keys_primary_last(r) == r.keys \o <<r.primary_key>>

\* SecretKeyring::keys: once(primary_key).chain(keys)
keys(r) == <<r.primary_key>> \o r.keys

\* SecretKeyring::insert
insert(r, k) == [r EXCEPT !.keys = index_insert(r.keys, k)]

\* remove without the check of the primary key
remove_unchecked(r, k) ==
  [ring |-> [r EXCEPT !.keys = shift_remove(r.keys, k)], res |-> "Ok"]

\* SecretKeyring::remove: the ring afterwards and the result
remove(r, k) ==
  IF r.primary_key = k
    THEN [ring |-> r, res |-> "RemovePrimaryKey"]
    ELSE [ring |-> [r EXCEPT !.keys = shift_remove(r.keys, k)], res |-> "Ok"]

\* use_key that keeps only the demoted primary in the set
use_key_clears_keys(r, k) ==
  IF k = r.primary_key
    THEN [ring |-> r, res |-> "Ok"]
    ELSE IF ~contains(r.keys, k)
      THEN [ring |-> r, res |-> "SecretKeyNotFound"]
      ELSE [ring |-> [primary_key |-> k, keys |-> <<r.primary_key>>],
            res |-> "Ok"]

\* use_key that demotes the old primary but never writes the new one
use_key_keeps_primary(r, k) ==
  IF k = r.primary_key
    THEN [ring |-> r, res |-> "Ok"]
    ELSE IF ~contains(r.keys, k)
      THEN [ring |-> r, res |-> "SecretKeyNotFound"]
      ELSE [ring |-> [r EXCEPT !.keys = index_insert(r.keys, r.primary_key)],
            res |-> "Ok"]

\* use_key without the lookup of the key in the set
use_key_unchecked(r, k) ==
  IF k = r.primary_key
    THEN [ring |-> r, res |-> "Ok"]
    ELSE [ring |-> [primary_key |-> k,
                    keys |-> swap_remove(index_insert(r.keys, r.primary_key), k)],
          res |-> "Ok"]

\* use_key that drops the old primary instead of demoting it
use_key_drops_old(r, k) ==
  IF k = r.primary_key
    THEN [ring |-> r, res |-> "Ok"]
    ELSE IF ~contains(r.keys, k)
      THEN [ring |-> r, res |-> "SecretKeyNotFound"]
      ELSE [ring |-> [primary_key |-> k, keys |-> swap_remove(r.keys, k)],
            res |-> "Ok"]

\* SecretKeyring::use_key: the ring afterwards and the result
use_key(r, k) ==
  IF k = r.primary_key
    THEN [ring |-> r, res |-> "Ok"]
    ELSE IF ~contains(r.keys, k)
      THEN [ring |-> r, res |-> "SecretKeyNotFound"]
      ELSE [ring |-> [primary_key |-> k,
                      keys |-> swap_remove(index_insert(r.keys, r.primary_key), k)],
            res |-> "Ok"]

\* ------------------------------------------------------- keyring operations
Call(op, k, res, before) ==
  [op |-> op, key |-> k, ks |-> <<>>, hint |-> 0, res |-> res, before |-> before]

InitKeyring ==
  \E p \in Keys, ks \in SeqsUpTo(Keys, MaxInitKeys) :
    \E hint \in 0..Len(ks) :
      /\ ring = with_keys(p, ks, hint)
      /\ last = [op |-> "with_keys", key |-> p, ks |-> ks, hint |-> hint,
                 res |-> "Ok", before |-> with_keys(p, ks, hint)]

Insert(k) ==
  /\ ring' = insert(ring, k)
  /\ last' = Call("insert", k, "Ok", ring)
  /\ UNCHANGED clusterVars
  /\ UNCHANGED streamVars
  /\ UNCHANGED <<codecVars, packetVars, tableVars, listenerVars, timeoutVars>>
  /\ UNCHANGED lockVars

Remove(k) ==
  /\ ring' = remove(ring, k).ring
  /\ last' = Call("remove", k, remove(ring, k).res, ring)
  /\ UNCHANGED clusterVars
  /\ UNCHANGED streamVars
  /\ UNCHANGED <<codecVars, packetVars, tableVars, listenerVars, timeoutVars>>
  /\ UNCHANGED lockVars

UseKey(k) ==
  /\ ring' = use_key(ring, k).ring
  /\ last' = Call("use_key", k, use_key(ring, k).res, ring)
  /\ UNCHANGED clusterVars
  /\ UNCHANGED streamVars
  /\ UNCHANGED <<codecVars, packetVars, tableVars, listenerVars, timeoutVars>>
  /\ UNCHANGED lockVars

\* --------------------------------------------------- key rotation (S4)
\* Every node runs its own SecretKeyring; the operator installs K2 on every
\* node and only then makes the nodes use it. Nodes keep sending messages
\* encrypted with their current primary key; a receiver tries keys() in order.
Nodes == 1..NumNodes
K1 == CHOOSE k \in Keys : \A j \in Keys : k <= j
K2 == K1 + 1

\* encryption picks primary_key of the sender
encrypt_key(s) == primary_key(rings[s])

\* trial decryption: some key of keys() of the receiver opens the message
decryptable(r, k) == contains(keys(rings[r]), k)

OperatorInsert(n) ==
  /\ n \notin installed
  /\ rings' = [rings EXCEPT ![n] = insert(rings[n], K2)]
  /\ installed' = installed \cup {n}
  /\ UNCHANGED <<switched, net, delivery>>
  /\ UNCHANGED keyringVars
  /\ UNCHANGED streamVars
  /\ UNCHANGED <<codecVars, packetVars, tableVars, listenerVars, timeoutVars>>
  /\ UNCHANGED lockVars

OperatorUseKey(n) ==
  /\ installed = Nodes
  /\ n \notin switched
  /\ rings' = [rings EXCEPT ![n] = use_key(rings[n], K2).ring]
  /\ switched' = switched \cup {n}
  /\ UNCHANGED <<installed, net, delivery>>
  /\ UNCHANGED keyringVars
  /\ UNCHANGED streamVars
  /\ UNCHANGED <<codecVars, packetVars, tableVars, listenerVars, timeoutVars>>
  /\ UNCHANGED lockVars

Send(s, r) ==
  /\ s # r
  /\ Cardinality(net) < MaxInFlight
  /\ net' = net \cup {[from |-> s, to |-> r, key |-> encrypt_key(s)]}
  /\ UNCHANGED <<rings, installed, switched, delivery>>
  /\ UNCHANGED keyringVars
  /\ UNCHANGED streamVars
  /\ UNCHANGED <<codecVars, packetVars, tableVars, listenerVars, timeoutVars>>
  /\ UNCHANGED lockVars

Deliver(m) ==
  /\ m \in net
  /\ net' = net \ {m}
  /\ delivery' = IF decryptable(m.to, m.key) THEN "decrypted" ELSE "lost"
  /\ UNCHANGED <<rings, installed, switched>>
  /\ UNCHANGED keyringVars
  /\ UNCHANGED streamVars
  /\ UNCHANGED <<codecVars, packetVars, tableVars, listenerVars, timeoutVars>>
  /\ UNCHANGED lockVars

\* ------------------------------------------------- membership table (4.1)
Conns == 1..NumConns
LocalId == "a"
NodeIds == {"a", "b"}
States == {"Alive", "Suspect", "Dead", "Left"}

\* a slot of the table that holds no record
NoNode == [incarnation |-> 0, state |-> "None"]

\* Alive < Suspect < Dead = Left
rank(st) == CASE st = "Alive" -> 0 [] st = "Suspect" -> 1 [] OTHER -> 2

\* an ordering in which equal incarnation and equal or better state pass too
dominates_at_equal_incarnation(r, cur) ==
  r.incarnation >= cur.incarnation

\* a strictly greater incarnation overrides; at equal incarnation the worse
\* state does
dominates(r, cur) ==
  \/ r.incarnation > cur.incarnation
  \/ r.incarnation = cur.incarnation /\ rank(r.state) > rank(cur.state)

\* a state merge that accepts Suspect and Dead about the local id like any
\* other record
merge_one_without_refute(t, r) ==
  LET cur == t[r.id]
      rec == [incarnation |-> r.incarnation, state |-> r.state]
  IN  IF cur.state = "None"
        THEN IF r.state # "Left" THEN [t EXCEPT ![r.id] = rec] ELSE t
      ELSE IF ~dominates(r, cur) THEN t
      ELSE [t EXCEPT ![r.id] = rec]

\* the state merge of one received record
merge_one(t, r) ==
  LET cur == t[r.id]
      rec == [incarnation |-> r.incarnation, state |-> r.state]
  IN  IF cur.state = "None"
        THEN IF r.state # "Left" THEN [t EXCEPT ![r.id] = rec] ELSE t
      ELSE IF ~dominates(r, cur) THEN t
      ELSE IF r.id = LocalId /\ r.state \in {"Suspect", "Dead"}
        THEN [t EXCEPT ![LocalId] =
                [incarnation |-> r.incarnation + 1, state |-> "Alive"]]
      ELSE [t EXCEPT ![r.id] = rec]

\* Memberlist::merge_state: every received record goes through the merge
RECURSIVE merge_state(_, _)
merge_state(t, states) ==
  IF states = <<>> THEN t
  ELSE merge_state(merge_one(t, Head(states)), Tail(states))

\* the broadcast queue after the state merge of one received record: a new
\* id enqueues an Alive broadcast, local_refute an Alive one step above the
\* received incarnation, an accepted record a matching one; each replaces the
\* queued broadcast of its id
enqueue_one(t, q, r) ==
  LET cur == t[r.id]
  IN  IF cur.state = "None"
        THEN IF r.state # "Left"
               THEN [q EXCEPT ![r.id] =
                       [incarnation |-> r.incarnation, state |-> "Alive"]]
               ELSE q
      ELSE IF ~dominates(r, cur) THEN q
      ELSE IF r.id = LocalId /\ r.state \in {"Suspect", "Dead"}
        THEN [q EXCEPT ![LocalId] =
                [incarnation |-> r.incarnation + 1, state |-> "Alive"]]
      ELSE [q EXCEPT ![r.id] =
              [incarnation |-> r.incarnation, state |-> r.state]]

\* the table, the queue and what is remembered of the received records,
\* after the state merge of one record: p keeps the record an accepted one
\* replaced, n the highest incarnation of a Suspect/Dead about the local id
apply_one(S, r) ==
  [t |-> merge_one(S.t, r),
   q |-> enqueue_one(S.t, S.q, r),
   p |-> IF merge_one(S.t, r)[r.id] # S.t[r.id]
           THEN [S.p EXCEPT ![r.id] = S.t[r.id]]
           ELSE S.p,
   n |-> IF r.id = LocalId /\ r.state \in {"Suspect", "Dead"}
              /\ r.incarnation > S.n
           THEN r.incarnation
           ELSE S.n]

\* a push/pull merge: the records go through the state merge in order
RECURSIVE apply_all(_, _)
apply_all(S, states) ==
  IF states = <<>> THEN S
  ELSE apply_all(apply_one(S, Head(states)), Tail(states))

\* the table and the queue as one value
Table == [t |-> nodes, q |-> broadcasts, p |-> prev, n |-> pending]

\* ------------------------------------------------ inbound stream requests
\* what read_message yields: Err (the read failed, with the error's text) or
\* Ok(msg) with msg a Ping, a PushPull, a UserData or any other kind
Request(kind, err, target, seq_no, join, states, user_data) ==
  [kind |-> kind, err |-> err, target |-> target, seq_no |-> seq_no,
   join |-> join, states |-> states, user_data |-> user_data]

NoRequest == Request("None", "", LocalId, 0, FALSE, <<>>, <<>>)
ErrRequests == {Request("Err", e, LocalId, 0, FALSE, <<>>, <<>>) :
                  e \in {"eof", "decode"}}
PingRequests == {Request("Ping", "", t, q, FALSE, <<>>, <<>>) :
                   t \in NodeIds, q \in 1..MaxSeq}
PushNodeStates == [id : NodeIds, incarnation : 1..MaxInc, state : States]
PushPullRequests ==
  {Request("PushPull", "", LocalId, 0, j, sts, ud) :
     j \in BOOLEAN, sts \in SeqsUpTo(PushNodeStates, 1), ud \in {<<>>, <<1>>}}
UserDataRequests == {Request("UserData", "", LocalId, 0, FALSE, <<>>, <<1>>)}
OtherRequests == {Request("Other", "", LocalId, 0, FALSE, <<>>, <<>>)}

\* every request a connection may carry
Requests ==
  ErrRequests \cup PingRequests \cup PushPullRequests
    \cup UserDataRequests \cup OtherRequests

\* the requests of the concurrent specification: a failed read, or a joining
\* push/pull that announces the peer alive and carries user data
StreamRequests ==
  {r \in ErrRequests : r.err = "eof"} \cup
  {r \in PushPullRequests :
     /\ r.join
     /\ r.states = <<[id |-> "b", incarnation |-> 1, state |-> "Alive"]>>
     /\ r.user_data = <<1>>}

\* a message handed to send_message, and whether the write succeeded
Sent(kind, err, seq_no, join, sts, user_data, ok) ==
  [kind |-> kind, err |-> err, seq_no |-> seq_no, join |-> join,
   nodes |-> sts, user_data |-> user_data, ok |-> ok]

\* ErrorResponse::new(e.to_string())
ErrorResponse(e, ok) == Sent("ErrorResponse", e, 0, FALSE, <<>>, <<>>, ok)
\* Ack::new(ping.seq_no)
Ack(seq_no, ok) == Sent("Ack", "", seq_no, FALSE, <<>>, <<>>, ok)
\* PushPull::new(local_nodes, user_data, join)
PushPull(sts, user_data, join, ok) ==
  Sent("PushPull", "", 0, join, sts, user_data, ok)

\* ------------------------------------------------------- stream handlers
\* One handle_conn task per inbound connection. A step runs the handler up to
\* its next suspension point that another task can observe: the atomic
\* counter, the membership table lock, a delegate callback.

\* the handler returns: the exit taken is recorded, its locals are dropped
Return(h, p) ==
  /\ pc' = [pc EXCEPT ![h] = "done"]
  /\ path' = [path EXCEPT ![h] = p]
  /\ num_concurrent' = [num_concurrent EXCEPT ![h] = 0]
  /\ local_nodes' = [local_nodes EXCEPT ![h] = <<>>]

\* scopeguard::defer! of the PushPull arm: push_pull_req.fetch_sub(1)
DeferFetchSub == push_pull_req' = push_pull_req - 1

Callback(name, join) == [name |-> name, join |-> join]

\* a listener that goes on handing connections to handlers after its exit
Accept_after_exit(h) ==
  /\ pc[h] = "idle"
  /\ pc' = [pc EXCEPT ![h] = "read"]
  /\ deadline' = [deadline EXCEPT ![h] =
       IF timeout # 0 THEN <<timeout>> ELSE <<>>]
  /\ UNCHANGED <<delegate, nodes, push_pull_req, req, num_concurrent,
                 local_nodes, out, cached, calls, merged, path>>
  /\ UNCHANGED keyringVars
  /\ UNCHANGED clusterVars
  /\ UNCHANGED <<codecVars, packetVars, tableVars, listenerVars>>
  /\ UNCHANGED <<timeout, stalled>>
  /\ UNCHANGED lockVars

\* a handler that reads without setting a deadline
Accept_without_deadline(h) ==
  /\ listener = "running"
  /\ transport = "open"
  /\ pc[h] = "idle"
  /\ pc' = [pc EXCEPT ![h] = "read"]
  /\ UNCHANGED <<delegate, nodes, push_pull_req, req, num_concurrent,
                 local_nodes, out, cached, calls, merged, path>>
  /\ UNCHANGED keyringVars
  /\ UNCHANGED clusterVars
  /\ UNCHANGED <<codecVars, packetVars, tableVars, listenerVars, timeoutVars>>
  /\ UNCHANGED lockVars

\* stream_listener: a connection received from the transport is handed to a
\* freshly spawned handle_conn, which sets the connection's timeout when one
\* is configured and then reads
Accept(h) ==
  /\ listener = "running"
  /\ transport = "open"
  /\ pc[h] = "idle"
  /\ pc' = [pc EXCEPT ![h] = "read"]
  /\ deadline' = [deadline EXCEPT ![h] =
       IF timeout # 0 THEN <<timeout>> ELSE <<>>]
  /\ UNCHANGED <<delegate, nodes, push_pull_req, req, num_concurrent,
                 local_nodes, out, cached, calls, merged, path>>
  /\ UNCHANGED keyringVars
  /\ UNCHANGED clusterVars
  /\ UNCHANGED <<codecVars, packetVars, tableVars, listenerVars>>
  /\ UNCHANGED <<timeout, stalled>>
  /\ UNCHANGED lockVars

\* a failed read that sends the error response and then goes on to return
\* the connection to the idle pool
ReadFailed_then_cache(h, m, ok) ==
  /\ pc[h] = "read"
  /\ m.kind = "Err"
  /\ req' = [req EXCEPT ![h] = m]
  /\ out' = [out EXCEPT ![h] = Append(out[h], ErrorResponse(m.err, ok))]
  /\ cached' = [cached EXCEPT ![h] = TRUE]
  /\ Return(h, "read_failed")
  /\ UNCHANGED <<delegate, nodes, push_pull_req, calls, merged>>
  /\ UNCHANGED keyringVars
  /\ UNCHANGED clusterVars
  /\ UNCHANGED <<codecVars, packetVars, tableVars, listenerVars, timeoutVars>>
  /\ UNCHANGED lockVars

\* handle_conn, read_message returned Err(e): the error response is sent
\* (the write may fail) and the handler returns
ReadFailed(h, m, ok) ==
  /\ pc[h] = "read"
  /\ m.kind = "Err"
  /\ req' = [req EXCEPT ![h] = m]
  /\ out' = [out EXCEPT ![h] = Append(out[h], ErrorResponse(m.err, ok))]
  /\ Return(h, "read_failed")
  /\ UNCHANGED <<delegate, nodes, push_pull_req, cached, calls, merged>>
  /\ UNCHANGED keyringVars
  /\ UNCHANGED clusterVars
  /\ UNCHANGED <<codecVars, packetVars, tableVars, listenerVars, timeoutVars>>
  /\ UNCHANGED lockVars

\* a Ping arm that acknowledges whatever the target of the ping is
HandlePing_any_target(h, m, ok) ==
  /\ pc[h] = "read"
  /\ m.kind = "Ping"
  /\ req' = [req EXCEPT ![h] = m]
  /\ out' = [out EXCEPT ![h] = Append(out[h], Ack(m.seq_no, ok))]
  /\ cached' = [cached EXCEPT ![h] = TRUE]
  /\ Return(h, IF ok THEN "ack" ELSE "ack_failed")
  /\ UNCHANGED <<delegate, nodes, push_pull_req, calls, merged>>
  /\ UNCHANGED keyringVars
  /\ UNCHANGED clusterVars
  /\ UNCHANGED <<codecVars, packetVars, tableVars, listenerVars, timeoutVars>>
  /\ UNCHANGED lockVars

\* handle_conn, Message::Ping
HandlePing(h, m, ok) ==
  /\ pc[h] = "read"
  /\ m.kind = "Ping"
  /\ req' = [req EXCEPT ![h] = m]
  /\ IF m.target # LocalId
       THEN /\ Return(h, "wrong_target")
            /\ UNCHANGED <<out, cached>>
       ELSE /\ out' = [out EXCEPT ![h] = Append(out[h], Ack(m.seq_no, ok))]
            /\ cached' = [cached EXCEPT ![h] = TRUE]
            /\ Return(h, IF ok THEN "ack" ELSE "ack_failed")
  /\ UNCHANGED <<delegate, nodes, push_pull_req, calls, merged>>
  /\ UNCHANGED keyringVars
  /\ UNCHANGED clusterVars
  /\ UNCHANGED <<codecVars, packetVars, tableVars, listenerVars, timeoutVars>>
  /\ UNCHANGED lockVars

\* handle_conn, Message::PushPull: push_pull_req.fetch_add(1)
HandlePushPull(h, m) ==
  /\ pc[h] = "read"
  /\ m.kind = "PushPull"
  /\ req' = [req EXCEPT ![h] = m]
  /\ num_concurrent' = [num_concurrent EXCEPT ![h] = push_pull_req]
  /\ push_pull_req' = push_pull_req + 1
  /\ pc' = [pc EXCEPT ![h] = "pp_check"]
  /\ UNCHANGED <<delegate, nodes, local_nodes, out, cached, calls, merged, path>>
  /\ UNCHANGED keyringVars
  /\ UNCHANGED clusterVars
  /\ UNCHANGED <<codecVars, packetVars, tableVars, listenerVars, timeoutVars>>
  /\ UNCHANGED lockVars

\* the admission check with > in place of >=
too_many_off_by_one(n) == n > MAX_PUSH_PULL_REQUESTS

\* handle_conn: if num_concurrent >= MAX_PUSH_PULL_REQUESTS
too_many(n) == n >= MAX_PUSH_PULL_REQUESTS

\* a rejection that returns without the deferred fetch_sub
PushPullReject_keeps_slot(h) ==
  /\ pc[h] = "pp_check"
  /\ too_many(num_concurrent[h])
  /\ UNCHANGED push_pull_req
  /\ Return(h, "rejected")
  /\ UNCHANGED <<delegate, nodes, req, out, cached, calls, merged>>
  /\ UNCHANGED keyringVars
  /\ UNCHANGED clusterVars
  /\ UNCHANGED <<codecVars, packetVars, tableVars, listenerVars, timeoutVars>>
  /\ UNCHANGED lockVars

\* handle_conn: too many open push/pull requests, the request is dropped
PushPullReject(h) ==
  /\ pc[h] = "pp_check"
  /\ too_many(num_concurrent[h])
  /\ DeferFetchSub
  /\ Return(h, "rejected")
  /\ UNCHANGED <<delegate, nodes, req, out, cached, calls, merged>>
  /\ UNCHANGED keyringVars
  /\ UNCHANGED clusterVars
  /\ UNCHANGED <<codecVars, packetVars, tableVars, listenerVars, timeoutVars>>
  /\ UNCHANGED lockVars

\* a snapshot taken after the received states were applied
SnapshotLocalNodes_after_merge(h) ==
  /\ pc[h] = "pp_check"
  /\ ~too_many(num_concurrent[h])
  /\ \A j \in Conns \ {h} : holds[j] # "write"
  /\ local_nodes' = [local_nodes EXCEPT ![h] = merge_state(nodes, req[h].states)]
  /\ pc' = [pc EXCEPT ![h] = "local_state"]
  /\ UNCHANGED <<delegate, nodes, push_pull_req, req, num_concurrent, out,
                 cached, calls, merged, path>>
  /\ UNCHANGED keyringVars
  /\ UNCHANGED clusterVars
  /\ deadline' = [deadline EXCEPT ![h] = <<timeout>>]
  /\ UNCHANGED <<codecVars, packetVars, tableVars, listenerVars>>
  /\ UNCHANGED <<timeout, stalled>>
  /\ holds' = [holds EXCEPT ![h] = "none"]

\* a snapshot whose read guard lives on through the rest of send_local_state
SnapshotLocalNodes_keeps_guard(h) ==
  /\ pc[h] = "pp_check"
  /\ ~too_many(num_concurrent[h])
  /\ \A j \in Conns \ {h} : holds[j] # "write"
  /\ local_nodes' = [local_nodes EXCEPT ![h] = nodes]
  /\ pc' = [pc EXCEPT ![h] = "local_state"]
  /\ UNCHANGED <<delegate, nodes, push_pull_req, req, num_concurrent, out,
                 cached, calls, merged, path>>
  /\ UNCHANGED keyringVars
  /\ UNCHANGED clusterVars
  /\ deadline' = [deadline EXCEPT ![h] = <<timeout>>]
  /\ UNCHANGED <<codecVars, packetVars, tableVars, listenerVars>>
  /\ UNCHANGED <<timeout, stalled>>
  /\ holds' = [holds EXCEPT ![h] = "read"]

\* send_local_state: the request was admitted; the timeout is set and
\* local_nodes is read from the table under the read lock, whose guard is
\* dropped at the end of the block that builds local_nodes
SnapshotLocalNodes(h) ==
  /\ pc[h] = "pp_check"
  /\ ~too_many(num_concurrent[h])
  /\ \A j \in Conns \ {h} : holds[j] # "write"
  /\ local_nodes' = [local_nodes EXCEPT ![h] = nodes]
  /\ pc' = [pc EXCEPT ![h] = "local_state"]
  /\ UNCHANGED <<delegate, nodes, push_pull_req, req, num_concurrent, out,
                 cached, calls, merged, path>>
  /\ UNCHANGED keyringVars
  /\ UNCHANGED clusterVars
  /\ deadline' = [deadline EXCEPT ![h] = <<timeout>>]
  /\ UNCHANGED <<codecVars, packetVars, tableVars, listenerVars>>
  /\ UNCHANGED <<timeout, stalled>>
  /\ holds' = [holds EXCEPT ![h] = "none"]

\* send_local_state: delegate.local_state(join) and send_message(PushPull)
SendLocalState(h, dok, ok) ==
  /\ pc[h] = "local_state"
  /\ calls' = [calls EXCEPT ![h] =
       IF delegate THEN Append(calls[h], Callback("local_state", req[h].join))
       ELSE calls[h]]
  /\ IF delegate /\ ~dok
       THEN /\ DeferFetchSub
            /\ Return(h, "local_state_failed")
            /\ UNCHANGED out
       ELSE /\ out' = [out EXCEPT ![h] = Append(out[h],
                 PushPull(local_nodes[h], IF delegate THEN <<9>> ELSE <<>>,
                          req[h].join, ok))]
            /\ IF ok
                 THEN /\ pc' = [pc EXCEPT ![h] = "merge"]
                      /\ local_nodes' = [local_nodes EXCEPT ![h] = <<>>]
                      /\ UNCHANGED <<push_pull_req, num_concurrent, path>>
                 ELSE /\ DeferFetchSub
                      /\ Return(h, "send_failed")
  /\ UNCHANGED <<delegate, nodes, req, cached, merged>>
  /\ UNCHANGED keyringVars
  /\ UNCHANGED clusterVars
  /\ UNCHANGED <<codecVars, packetVars, tableVars, listenerVars, timeoutVars>>
  /\ UNCHANGED lockVars

\* handle_conn after merge_remote_state returned: its error is only logged,
\* cache_stream is called, the deferred fetch_sub runs
FinishPushPull(h, p) ==
  /\ cached' = [cached EXCEPT ![h] = TRUE]
  /\ DeferFetchSub
  /\ Return(h, p)

\* a failed verification that still merges the received states
VerifyProtocol_then_merge(h, vok) ==
  /\ pc[h] = "merge"
  /\ IF ~vok
       THEN /\ nodes' = merge_state(nodes, req[h].states)
            /\ merged' = [merged EXCEPT ![h] = TRUE]
            /\ FinishPushPull(h, "verify_failed")
       ELSE /\ pc' = [pc EXCEPT ![h] =
                 IF req[h].join /\ delegate THEN "notify_merge"
                 ELSE "merge_state"]
            /\ UNCHANGED <<nodes, merged, push_pull_req, num_concurrent,
                           local_nodes, cached, path>>
  /\ UNCHANGED <<delegate, req, out, calls>>
  /\ UNCHANGED keyringVars
  /\ UNCHANGED clusterVars
  /\ UNCHANGED <<codecVars, packetVars, tableVars, listenerVars, timeoutVars>>
  /\ UNCHANGED lockVars

\* merge_remote_state: verify_protocol(states), then the decision to call
\* notify_merge
VerifyProtocol(h, vok) ==
  /\ pc[h] = "merge"
  /\ IF ~vok
       THEN FinishPushPull(h, "verify_failed")
       ELSE /\ pc' = [pc EXCEPT ![h] =
                 IF req[h].join /\ delegate THEN "notify_merge"
                 ELSE "merge_state"]
            /\ UNCHANGED <<push_pull_req, num_concurrent, local_nodes,
                           cached, path>>
  /\ UNCHANGED <<delegate, nodes, req, out, calls, merged>>
  /\ UNCHANGED keyringVars
  /\ UNCHANGED clusterVars
  /\ UNCHANGED <<codecVars, packetVars, tableVars, listenerVars, timeoutVars>>
  /\ UNCHANGED lockVars

\* a notify_merge whose veto comes after the merge of the states
NotifyMerge_after_merge(h, dok) ==
  /\ pc[h] = "notify_merge"
  /\ calls' = [calls EXCEPT ![h] =
       Append(calls[h], Callback("notify_merge", req[h].join))]
  /\ IF ~dok
       THEN /\ nodes' = merge_state(nodes, req[h].states)
            /\ merged' = [merged EXCEPT ![h] = TRUE]
            /\ FinishPushPull(h, "notify_merge_failed")
       ELSE /\ pc' = [pc EXCEPT ![h] = "merge_state"]
            /\ UNCHANGED <<nodes, merged, push_pull_req, num_concurrent,
                           local_nodes, cached, path>>
  /\ UNCHANGED <<delegate, req, out>>
  /\ UNCHANGED keyringVars
  /\ UNCHANGED clusterVars
  /\ UNCHANGED <<codecVars, packetVars, tableVars, listenerVars, timeoutVars>>
  /\ UNCHANGED lockVars

\* merge_remote_state: merge.notify_merge(peers)
NotifyMerge(h, dok) ==
  /\ pc[h] = "notify_merge"
  /\ calls' = [calls EXCEPT ![h] =
       Append(calls[h], Callback("notify_merge", req[h].join))]
  /\ IF ~dok
       THEN FinishPushPull(h, "notify_merge_failed")
       ELSE /\ pc' = [pc EXCEPT ![h] = "merge_state"]
            /\ UNCHANGED <<push_pull_req, num_concurrent, local_nodes,
                           cached, path>>
  /\ UNCHANGED <<delegate, nodes, req, out, merged>>
  /\ UNCHANGED keyringVars
  /\ UNCHANGED clusterVars
  /\ UNCHANGED <<codecVars, packetVars, tableVars, listenerVars, timeoutVars>>
  /\ UNCHANGED lockVars

\* a merge that hands the user data to the delegate even when it is empty
MergeState_any_user_data(h) ==
  /\ pc[h] = "merge_state"
  /\ \A j \in Conns \ {h} : holds[j] = "none"
  /\ nodes' = merge_state(nodes, req[h].states)
  /\ merged' = [merged EXCEPT ![h] = TRUE]
  /\ IF delegate
       THEN /\ pc' = [pc EXCEPT ![h] = "merge_delegate"]
            /\ UNCHANGED <<push_pull_req, num_concurrent, local_nodes,
                           cached, path>>
       ELSE FinishPushPull(h, "merged")
  /\ UNCHANGED <<delegate, req, out, calls>>
  /\ UNCHANGED keyringVars
  /\ UNCHANGED clusterVars
  /\ broadcasts' = apply_all(Table, req[h].states).q
  /\ prev' = apply_all(Table, req[h].states).p
  /\ pending' = apply_all(Table, req[h].states).n
  /\ UNCHANGED last_out
  /\ UNCHANGED <<codecVars, packetVars, listenerVars, timeoutVars>>
  /\ holds' = [holds EXCEPT ![h] = "none"]

\* merge_remote_state: self.merge_state(states) under the write lock
MergeState(h) ==
  /\ pc[h] = "merge_state"
  /\ \A j \in Conns \ {h} : holds[j] = "none"
  /\ nodes' = merge_state(nodes, req[h].states)
  /\ merged' = [merged EXCEPT ![h] = TRUE]
  /\ IF delegate /\ req[h].user_data # <<>>
       THEN /\ pc' = [pc EXCEPT ![h] = "merge_delegate"]
            /\ UNCHANGED <<push_pull_req, num_concurrent, local_nodes,
                           cached, path>>
       ELSE FinishPushPull(h, "merged")
  /\ UNCHANGED <<delegate, req, out, calls>>
  /\ UNCHANGED keyringVars
  /\ UNCHANGED clusterVars
  /\ broadcasts' = apply_all(Table, req[h].states).q
  /\ prev' = apply_all(Table, req[h].states).p
  /\ pending' = apply_all(Table, req[h].states).n
  /\ UNCHANGED last_out
  /\ UNCHANGED <<codecVars, packetVars, listenerVars, timeoutVars>>
  /\ holds' = [holds EXCEPT ![h] = "none"]

\* merge_remote_state: d.merge_remote_state(user_data, join)
MergeDelegate(h, dok) ==
  /\ pc[h] = "merge_delegate"
  /\ calls' = [calls EXCEPT ![h] =
       Append(calls[h], Callback("merge_remote_state", req[h].join))]
  /\ FinishPushPull(h, IF dok THEN "merged" ELSE "merge_delegate_failed")
  /\ UNCHANGED <<delegate, nodes, req, out, merged>>
  /\ UNCHANGED keyringVars
  /\ UNCHANGED clusterVars
  /\ UNCHANGED <<codecVars, packetVars, tableVars, listenerVars, timeoutVars>>
  /\ UNCHANGED lockVars

\* handle_conn, Message::UserData: d.notify_message(data) when a delegate is
\* present; its error is only logged
HandleUserData(h, m) ==
  /\ pc[h] = "read"
  /\ m.kind = "UserData"
  /\ req' = [req EXCEPT ![h] = m]
  /\ calls' = [calls EXCEPT ![h] =
       IF delegate THEN Append(calls[h], Callback("notify_message", FALSE))
       ELSE calls[h]]
  /\ Return(h, "user_data")
  /\ UNCHANGED <<delegate, nodes, push_pull_req, out, cached, merged>>
  /\ UNCHANGED keyringVars
  /\ UNCHANGED clusterVars
  /\ UNCHANGED <<codecVars, packetVars, tableVars, listenerVars, timeoutVars>>
  /\ UNCHANGED lockVars

\* handle_conn, any other message kind: logged
HandleInvalid(h, m) ==
  /\ pc[h] = "read"
  /\ m.kind = "Other"
  /\ req' = [req EXCEPT ![h] = m]
  /\ Return(h, "invalid")
  /\ UNCHANGED <<delegate, nodes, push_pull_req, out, cached, calls, merged>>
  /\ UNCHANGED keyringVars
  /\ UNCHANGED clusterVars
  /\ UNCHANGED <<codecVars, packetVars, tableVars, listenerVars, timeoutVars>>
  /\ UNCHANGED lockVars

\* ----------------------------------------------------------- specifications
\* a keyring that no operation touches
IdleKeyring ==
  /\ ring = new(K1)
  /\ last = [op |-> "with_keys", key |-> K1, ks |-> <<>>, hint |-> 0,
             res |-> "Ok", before |-> new(K1)]

\* no cluster
IdleCluster ==
  /\ rings = <<>>
  /\ installed = {}
  /\ switched = {}
  /\ net = {}
  /\ delivery = "none"

\* the membership table of a node that has just started: itself, alive
InitialNodes ==
  [i \in NodeIds |->
     IF i = LocalId THEN [incarnation |-> 1, state |-> "Alive"] ELSE NoNode]

\* no codec call
IdleCodec ==
  /\ err_msg = <<>>
  /\ buf = <<>>
  /\ written = 0
  /\ decoded = [readed |-> 0, err |-> <<>>]

\* no datagram
IdlePacket ==
  /\ pkt_cfg = [label |-> FALSE, compression |-> FALSE, encryption |-> FALSE]
  /\ pings = <<>>
  /\ wire = <<>>
  /\ subs = <<>>
  /\ replies = <<>>
  /\ ppc = "none"

\* a started node: nothing queued, nothing received
IdleTable ==
  /\ broadcasts = [i \in NodeIds |-> NoNode]
  /\ prev = [i \in NodeIds |-> NoNode]
  /\ pending = 0
  /\ last_out = [incarnation |-> 0, state |-> "None", pending |-> 0]

\* the listener is running, no shutdown, the transport delivers
IdleListener ==
  /\ listener = "running"
  /\ shutdown = FALSE
  /\ transport = "open"

\* no connection has a deadline, every peer sends its frame
NoDeadlines ==
  /\ deadline = [h \in Conns |-> <<>>]
  /\ stalled = {}

\* the handlers' state before any connection is accepted
StartHandlers ==
  /\ nodes = InitialNodes
  /\ push_pull_req = 0
  /\ pc = [h \in Conns |-> "idle"]
  /\ req = [h \in Conns |-> NoRequest]
  /\ num_concurrent = [h \in Conns |-> 0]
  /\ local_nodes = [h \in Conns |-> <<>>]
  /\ out = [h \in Conns |-> <<>>]
  /\ cached = [h \in Conns |-> FALSE]
  /\ calls = [h \in Conns |-> <<>>]
  /\ merged = [h \in Conns |-> FALSE]
  /\ path = [h \in Conns |-> "none"]
  /\ holds = [h \in Conns |-> "none"]

\* a node with a timeout configured, its listener running
StartStream ==
  /\ StartHandlers
  /\ IdleCodec
  /\ IdlePacket
  /\ IdleTable
  /\ IdleListener
  /\ timeout = MaxTimeout
  /\ NoDeadlines

\* no stream dispatcher
IdleStream == delegate = FALSE /\ StartStream

\* The keyring: built by new/with_keys, then any insert, remove, use_key.
Init == InitKeyring /\ IdleCluster /\ IdleStream

Next ==
  \/ \E k \in Keys : Insert(k)
  \/ \E k \in Keys : Remove(k)
  \/ \E k \in Keys : UseKey(k)

Spec == Init /\ [][Next]_vars

\* The cluster rotating from K1 to K2.
InitRotate ==
  /\ IdleKeyring
  /\ rings = [n \in Nodes |-> new(K1)]
  /\ installed = {}
  /\ switched = {}
  /\ net = {}
  /\ delivery = "none"
  /\ IdleStream

NextRotate ==
  \/ \E n \in Nodes : OperatorInsert(n)
  \/ \E n \in Nodes : OperatorUseKey(n)
  \/ \E s \in Nodes, r \in Nodes : Send(s, r)
  \/ \E m \in net : Deliver(m)

SpecRotate == InitRotate /\ [][NextRotate]_vars

\* The stream dispatcher under load: the handlers of all connections run
\* concurrently, each reading one of StreamRequests.
InitStream ==
  /\ IdleKeyring
  /\ IdleCluster
  /\ delegate \in BOOLEAN
  /\ StartStream

NextStream ==
  \/ \E h \in Conns : Accept(h)
  \/ \E h \in Conns, m \in StreamRequests, ok \in BOOLEAN : ReadFailed(h, m, ok)
  \/ \E h \in Conns, m \in StreamRequests : HandlePushPull(h, m)
  \/ \E h \in Conns : PushPullReject(h)
  \/ \E h \in Conns : SnapshotLocalNodes(h)
  \/ \E h \in Conns, dok \in BOOLEAN, ok \in BOOLEAN : SendLocalState(h, dok, ok)
  \/ \E h \in Conns, vok \in BOOLEAN : VerifyProtocol(h, vok)
  \/ \E h \in Conns, dok \in BOOLEAN : NotifyMerge(h, dok)
  \/ \E h \in Conns : MergeState(h)
  \/ \E h \in Conns, dok \in BOOLEAN : MergeDelegate(h, dok)

SpecStream == InitStream /\ [][NextStream]_vars

\* One connection, carrying any of Requests. A single handler always finds
\* push_pull_req = 0, so the rejection of a push/pull is not among its steps.
TheConn == CHOOSE h \in Conns : \A j \in Conns : h <= j

NextConn ==
  \/ Accept(TheConn)
  \/ \E m \in Requests, ok \in BOOLEAN : ReadFailed(TheConn, m, ok)
  \/ \E m \in Requests, ok \in BOOLEAN : HandlePing(TheConn, m, ok)
  \/ \E m \in Requests : HandlePushPull(TheConn, m)
  \/ SnapshotLocalNodes(TheConn)
  \/ \E dok \in BOOLEAN, ok \in BOOLEAN : SendLocalState(TheConn, dok, ok)
  \/ \E vok \in BOOLEAN : VerifyProtocol(TheConn, vok)
  \/ \E dok \in BOOLEAN : NotifyMerge(TheConn, dok)
  \/ MergeState(TheConn)
  \/ \E dok \in BOOLEAN : MergeDelegate(TheConn, dok)
  \/ \E m \in Requests : HandleUserData(TheConn, m)
  \/ \E m \in Requests : HandleInvalid(TheConn, m)

SpecConn == InitStream /\ [][NextConn]_vars

\* ------------------------------------------------- ErrorResponse's codec
\* the characters of a message, as code points: 'a', 'z' and the two-byte
\* U+00E9
Chars == {97, 122, 233}

\* str::as_bytes: the UTF-8 bytes of a string
RECURSIVE as_bytes(_)
as_bytes(str) ==
  IF str = <<>> THEN <<>>
  ELSE LET c == Head(str)
       IN  (IF c < 128 THEN <<c>>
            ELSE <<192 + (c \div 64), 128 + (c % 64)>>) \o as_bytes(Tail(str))

\* str::from_utf8: the string of UTF-8 bytes, <<-1>> when they are not UTF-8
RECURSIVE from_utf8(_)
from_utf8(bytes) ==
  IF bytes = <<>> THEN <<>>
  ELSE IF Head(bytes) < 128
    THEN LET rest == from_utf8(Tail(bytes))
         IN  IF rest = <<-1>> THEN rest ELSE <<Head(bytes)>> \o rest
  ELSE IF Head(bytes) >= 192 /\ Head(bytes) < 224 /\ Len(bytes) >= 2
          /\ bytes[2] >= 128 /\ bytes[2] < 192
    THEN LET rest == from_utf8(Tail(Tail(bytes)))
         IN  IF rest = <<-1>> THEN rest
             ELSE <<(Head(bytes) - 192) * 64 + (bytes[2] - 128)>> \o rest
  ELSE <<-1>>

\* a u32 in network byte order
to_be_bytes(n) ==
  <<(n \div 16777216) % 256, (n \div 65536) % 256, (n \div 256) % 256, n % 256>>

from_be_bytes(b) == ((b[1] * 256 + b[2]) * 256 + b[3]) * 256 + b[4]

\* <SmolStr as Transformable>::encoded_len: a u32 length and the bytes
SmolStr_encoded_len(str) == 4 + Len(as_bytes(str))

\* <SmolStr as Transformable>::encode into a buffer of dst_len bytes: the
\* bytes written and their number, or an error when the buffer is too small
SmolStr_encode(str, dst_len) ==
  IF dst_len < SmolStr_encoded_len(str)
    THEN [ok |-> FALSE, written |-> 0, bytes |-> <<>>]
    ELSE [ok |-> TRUE,
          written |-> 4 + Len(as_bytes(str)),
          bytes |-> to_be_bytes(Len(as_bytes(str))) \o as_bytes(str)]

\* <SmolStr as Transformable>::decode: the bytes read and the string
SmolStr_decode(src) ==
  IF Len(src) < 4 THEN [ok |-> FALSE, readed |-> 0, value |-> <<>>]
  ELSE LET len == from_be_bytes(src)
       IN  IF Len(src) < 4 + len \/ from_utf8(SubSeq(src, 5, 4 + len)) = <<-1>>
             THEN [ok |-> FALSE, readed |-> 0, value |-> <<>>]
             ELSE [ok |-> TRUE, readed |-> 4 + len,
                   value |-> from_utf8(SubSeq(src, 5, 4 + len))]

\* ErrorResponse::new
ErrorResponse_new(str) == [err |-> str]

\* <ErrorResponse as Transformable>::encode
encode(e, dst_len) == SmolStr_encode(e.err, dst_len)

\* <ErrorResponse as Transformable>::encoded_len
encoded_len(e) == SmolStr_encoded_len(e.err)

\* a decode that reports the bytes of the string only
decode_without_prefix(src) ==
  LET d == SmolStr_decode(src)
  IN  [ok |-> d.ok, readed |-> IF d.ok THEN d.readed - 4 ELSE 0,
       value |-> [err |-> d.value]]

\* <ErrorResponse as Transformable>::decode
decode(src) ==
  LET d == SmolStr_decode(src)
  IN  [ok |-> d.ok, readed |-> d.readed, value |-> [err |-> d.value]]

\* encode into a buffer of encoded_len() bytes
Encode ==
  /\ written = 0
  /\ LET r == encode(ErrorResponse_new(err_msg),
                     encoded_len(ErrorResponse_new(err_msg)))
     IN  /\ r.ok
         /\ buf' = r.bytes
         /\ written' = r.written
  /\ UNCHANGED <<err_msg, decoded>>
  /\ UNCHANGED keyringVars
  /\ UNCHANGED clusterVars
  /\ UNCHANGED streamVars
  /\ UNCHANGED <<packetVars, tableVars, listenerVars, timeoutVars>>
  /\ UNCHANGED lockVars

\* decode the buffer
Decode ==
  /\ written # 0
  /\ decoded.readed = 0
  /\ decode(buf).ok
  /\ decoded' = [readed |-> decode(buf).readed, err |-> decode(buf).value.err]
  /\ UNCHANGED <<err_msg, buf, written>>
  /\ UNCHANGED keyringVars
  /\ UNCHANGED clusterVars
  /\ UNCHANGED streamVars
  /\ UNCHANGED <<packetVars, tableVars, listenerVars, timeoutVars>>
  /\ UNCHANGED lockVars

\* Every ErrorResponse of up to MaxErrLen characters, encoded then decoded.
InitCodec ==
  /\ IdleKeyring
  /\ IdleCluster
  /\ delegate = FALSE
  /\ StartHandlers
  /\ IdlePacket
  /\ IdleTable
  /\ IdleListener
  /\ timeout = MaxTimeout
  /\ NoDeadlines
  /\ err_msg \in SeqsUpTo(Chars, MaxErrLen)
  /\ buf = <<>>
  /\ written = 0
  /\ decoded = [readed |-> 0, err |-> <<>>]

NextCodec == Encode \/ Decode

SpecCodec == InitCodec /\ [][NextCodec]_vars

\* ------------------------------------------------------ packet handler
\* Frame: [kind:u8][len:u32][payload]
kind_tag(kind) ==
  CASE kind = "Compound" -> 0 [] kind = "Ping" -> 1 [] kind = "Ack" -> 2
    [] kind = "Nack" -> 3 [] OTHER -> 255

tag_kind(tag) ==
  CASE tag = 0 -> "Compound" [] tag = 1 -> "Ping" [] tag = 2 -> "Ack"
    [] tag = 3 -> "Nack" [] OTHER -> "Invalid"

\* the byte that stands for a node id
id_byte(i) == IF i = "a" THEN 97 ELSE 98

byte_id(b) == IF b = 97 THEN "a" ELSE "b"

\* Ping: seq:u32 and the target; Ack/Nack: seq:u32
PacketPing(seq_no, target) ==
  [kind |-> "Ping", seq_no |-> seq_no, target |-> target]

PacketAck(seq_no) == [kind |-> "Ack", seq_no |-> seq_no, target |-> "none"]

PacketNack(seq_no) == [kind |-> "Nack", seq_no |-> seq_no, target |-> "none"]

DecodeError == [kind |-> "Invalid", seq_no |-> 0, target |-> "none"]

payload(m) ==
  IF m.kind = "Ping" THEN to_be_bytes(m.seq_no) \o <<id_byte(m.target)>>
  ELSE to_be_bytes(m.seq_no)

encode_frame(m) ==
  <<kind_tag(m.kind)>> \o to_be_bytes(Len(payload(m))) \o payload(m)

\* the message of one frame, DecodeError when the bytes are no frame
decode_frame(f) ==
  IF Len(f) < 5 \/ Len(f) # 5 + from_be_bytes(SubSeq(f, 2, 5)) THEN DecodeError
  ELSE LET kind == tag_kind(f[1])
           body == SubSeq(f, 6, Len(f))
       IN  IF kind = "Ping" /\ Len(body) = 5
             THEN PacketPing(from_be_bytes(body), byte_id(body[5]))
           ELSE IF kind = "Ack" /\ Len(body) = 4
             THEN PacketAck(from_be_bytes(body))
           ELSE IF kind = "Nack" /\ Len(body) = 4
             THEN PacketNack(from_be_bytes(body))
           ELSE DecodeError

\* a u16 in network byte order
to_be_bytes_u16(n) == <<(n \div 256) % 256, n % 256>>

\* ([len:u16][subframe])*
RECURSIVE encode_subframes(_)
encode_subframes(msgs) ==
  IF msgs = <<>> THEN <<>>
  ELSE to_be_bytes_u16(Len(encode_frame(Head(msgs))))
         \o encode_frame(Head(msgs)) \o encode_subframes(Tail(msgs))

\* Compound: kind=Compound, payload = [count:u8] ([len:u16][subframe])*
encode_compound(msgs) ==
  LET body == <<Len(msgs) % 256>> \o encode_subframes(msgs)
  IN  <<kind_tag("Compound")>> \o to_be_bytes(Len(body)) \o body

\* the first count sub-messages of the bytes after the count
RECURSIVE decode_subframes(_, _)
decode_subframes(count, bytes) ==
  IF count = 0 THEN <<>>
  ELSE IF Len(bytes) < 2 \/ Len(bytes) < 2 + bytes[1] * 256 + bytes[2]
    THEN <<DecodeError>>
  ELSE LET len == bytes[1] * 256 + bytes[2]
       IN  <<decode_frame(SubSeq(bytes, 3, 2 + len))>>
             \o decode_subframes(count - 1, SubSeq(bytes, 3 + len, Len(bytes)))

\* a decoding that stops after the first sub-message
decode_compound_first_only(f) ==
  IF Len(f) < 6 \/ tag_kind(f[1]) # "Compound"
       \/ Len(f) # 5 + from_be_bytes(SubSeq(f, 2, 5))
    THEN <<DecodeError>>
    ELSE decode_subframes(IF f[6] = 0 THEN 0 ELSE 1, SubSeq(f, 7, Len(f)))

\* the sub-messages of a compound frame
decode_compound(f) ==
  IF Len(f) < 6 \/ tag_kind(f[1]) # "Compound"
       \/ Len(f) # 5 + from_be_bytes(SubSeq(f, 2, 5))
    THEN <<DecodeError>>
    ELSE decode_subframes(f[6], SubSeq(f, 7, Len(f)))

\* the cluster label and the primary key of both ends
Label == <<108, 49>>
PacketKey == 41
Nonce == 7

\* [label_len:u8][label]
add_label(bytes) == <<Len(Label)>> \o Label \o bytes

\* label verification: the bytes after the label, <<-1>> on a mismatch
remove_label(bytes) ==
  IF Len(bytes) > Len(Label) /\ bytes[1] = Len(Label)
       /\ SubSeq(bytes, 2, 1 + Len(Label)) = Label
    THEN SubSeq(bytes, 2 + Len(Label), Len(bytes))
    ELSE <<-1>>

\* the length of the run of equal bytes at the head
RECURSIVE run(_)
run(bytes) ==
  IF Len(bytes) < 2 \/ bytes[1] # bytes[2] THEN Len(bytes) - Len(Tail(bytes))
  ELSE 1 + run(Tail(bytes))

RECURSIVE squeeze(_)
squeeze(bytes) ==
  IF bytes = <<>> THEN <<>>
  ELSE <<run(bytes), Head(bytes)>>
         \o squeeze(SubSeq(bytes, run(bytes) + 1, Len(bytes)))

RECURSIVE expand(_)
expand(bytes) ==
  IF Len(bytes) < 2 THEN <<>>
  ELSE [i \in 1..bytes[1] |-> bytes[2]] \o expand(Tail(Tail(bytes)))

\* [compress_algo:u8][compressed]: runs of equal bytes stand for a compressor
compress(bytes) == <<1>> \o squeeze(bytes)

decompress(bytes) ==
  IF Len(bytes) < 1 \/ bytes[1] # 1 \/ (Len(bytes) - 1) % 2 # 0 THEN <<-1>>
  ELSE expand(Tail(bytes))

RECURSIVE sum(_)
sum(bytes) == IF bytes = <<>> THEN 0 ELSE (Head(bytes) + sum(Tail(bytes))) % 256

\* [enc_algo:u8][nonce][ciphertext][tag]: a byte-wise shift by key and nonce
\* stands for the cipher, the sum of the plaintext for the tag
encrypt(key, bytes) ==
  <<1, Nonce>> \o [i \in 1..Len(bytes) |-> (bytes[i] + key + Nonce) % 256]
    \o <<sum(bytes)>>

decrypt(key, bytes) ==
  IF Len(bytes) < 3 \/ bytes[1] # 1 THEN <<-1>>
  ELSE LET plain == [i \in 1..(Len(bytes) - 3) |->
                       (bytes[i + 2] + 512 - key - bytes[2]) % 256]
       IN  IF sum(plain) = bytes[Len(bytes)] THEN plain ELSE <<-1>>

\* outbound: the frame, compressed, encrypted, labelled, as configured
encode_packet(cfg, msgs) ==
  LET f == encode_compound(msgs)
      c == IF cfg.compression THEN compress(f) ELSE f
      e == IF cfg.encryption THEN encrypt(PacketKey, c) ELSE c
  IN  IF cfg.label THEN add_label(e) ELSE e

\* inbound, the mirror: label verification, decrypt, decompress, then the
\* sub-messages
decode_packet(cfg, bytes) ==
  LET l == IF cfg.label THEN remove_label(bytes) ELSE bytes
      e == IF l = <<-1>> THEN l
           ELSE IF cfg.encryption THEN decrypt(PacketKey, l) ELSE l
      c == IF e = <<-1>> THEN e
           ELSE IF cfg.compression THEN decompress(e) ELSE e
  IN  IF c = <<-1>> THEN <<DecodeError>> ELSE decode_compound(c)

\* the sender puts its pings in one compound datagram
SendCompound ==
  /\ ppc = "none"
  /\ pings # <<>>
  /\ wire' = encode_packet(pkt_cfg, pings)
  /\ ppc' = "sent"
  /\ UNCHANGED <<pkt_cfg, pings, subs, replies>>
  /\ UNCHANGED keyringVars
  /\ UNCHANGED clusterVars
  /\ UNCHANGED streamVars
  /\ UNCHANGED <<codecVars, tableVars, listenerVars, timeoutVars>>
  /\ UNCHANGED lockVars

\* the packet handler reads the datagram
HandlePacket ==
  /\ ppc = "sent"
  /\ subs' = decode_packet(pkt_cfg, wire)
  /\ ppc' = "dispatch"
  /\ UNCHANGED <<pkt_cfg, pings, wire, replies>>
  /\ UNCHANGED keyringVars
  /\ UNCHANGED clusterVars
  /\ UNCHANGED streamVars
  /\ UNCHANGED <<codecVars, tableVars, listenerVars, timeoutVars>>
  /\ UNCHANGED lockVars

\* one sub-message is dispatched: a Ping for the local id is answered with
\* Ack(seq), a Ping for another id with a Nack, anything else is dropped
DispatchSub ==
  /\ ppc = "dispatch"
  /\ subs # <<>>
  /\ subs' = Tail(subs)
  /\ replies' =
       IF Head(subs).kind = "Ping"
         THEN Append(replies,
                IF Head(subs).target = LocalId
                  THEN PacketAck(Head(subs).seq_no)
                  ELSE PacketNack(Head(subs).seq_no))
         ELSE replies
  /\ UNCHANGED <<pkt_cfg, pings, wire, ppc>>
  /\ UNCHANGED keyringVars
  /\ UNCHANGED clusterVars
  /\ UNCHANGED streamVars
  /\ UNCHANGED <<codecVars, tableVars, listenerVars, timeoutVars>>
  /\ UNCHANGED lockVars

\* the pings of a datagram
PacketPings ==
  {PacketPing(n, i) : n \in 1..MaxSeq, i \in NodeIds}

\* Every compound of up to MaxPings pings under every combination of label,
\* compression and encryption.
InitPacket ==
  /\ IdleKeyring
  /\ IdleCluster
  /\ delegate = FALSE
  /\ StartHandlers
  /\ IdleCodec
  /\ IdleTable
  /\ IdleListener
  /\ timeout = MaxTimeout
  /\ NoDeadlines
  /\ pkt_cfg \in [label : BOOLEAN, compression : BOOLEAN, encryption : BOOLEAN]
  /\ pings \in SeqsUpTo(PacketPings, MaxPings)
  /\ wire = <<>>
  /\ subs = <<>>
  /\ replies = <<>>
  /\ ppc = "none"

NextPacket == SendCompound \/ HandlePacket \/ DispatchSub

SpecPacket == InitPacket /\ [][NextPacket]_vars

\* The membership table under any alive, suspect and dead updates, push/pull
\* merges and outbound gossip.

\* the records a peer can send: about the local id a peer learns only what
\* the local node announced, Alive, or what a failed probe made of it
Updates ==
  {[id |-> i, incarnation |-> n, state |-> st] :
     i \in NodeIds, n \in 1..MaxInc, st \in States} \
  {[id |-> LocalId, incarnation |-> n, state |-> "Left"] : n \in 1..MaxInc}

\* the node states of a push/pull: a snapshot of the sender's table, one
\* record for an id
Snapshots ==
  {sts \in SeqsUpTo(Updates, Cardinality(NodeIds)) :
     \A a \in 1..Len(sts), b \in 1..Len(sts) :
       a # b => sts[a].id # sts[b].id}

\* the state merge of one record
Apply(r) ==
  /\ nodes' = apply_one(Table, r).t
  /\ broadcasts' = apply_one(Table, r).q
  /\ prev' = apply_one(Table, r).p
  /\ pending' = apply_one(Table, r).n
  /\ UNCHANGED last_out
  /\ UNCHANGED <<delegate, push_pull_req, pc, req, num_concurrent,
                 local_nodes, out, cached, calls, merged, path>>
  /\ UNCHANGED keyringVars
  /\ UNCHANGED clusterVars
  /\ UNCHANGED <<codecVars, packetVars, listenerVars, timeoutVars>>
  /\ UNCHANGED lockVars

apply_alive(r) == r.state = "Alive" /\ Apply(r)

apply_suspect(r) == r.state = "Suspect" /\ Apply(r)

apply_dead(r) == r.state \in {"Dead", "Left"} /\ Apply(r)

\* the records of a received push/pull
PushPullMerge(states) ==
  /\ nodes' = apply_all(Table, states).t
  /\ broadcasts' = apply_all(Table, states).q
  /\ prev' = apply_all(Table, states).p
  /\ pending' = apply_all(Table, states).n
  /\ UNCHANGED last_out
  /\ UNCHANGED <<delegate, push_pull_req, pc, req, num_concurrent,
                 local_nodes, out, cached, calls, merged, path>>
  /\ UNCHANGED keyringVars
  /\ UNCHANGED clusterVars
  /\ UNCHANGED <<codecVars, packetVars, listenerVars, timeoutVars>>
  /\ UNCHANGED lockVars

\* the gossip emitter sends the queued broadcast of an id
GossipOut(i) ==
  /\ broadcasts[i] # NoNode
  /\ broadcasts' = [broadcasts EXCEPT ![i] = NoNode]
  /\ IF i = LocalId
       THEN /\ last_out' = [incarnation |-> broadcasts[i].incarnation,
                            state |-> broadcasts[i].state,
                            pending |-> pending]
            /\ pending' = 0
       ELSE UNCHANGED <<last_out, pending>>
  /\ UNCHANGED <<nodes, prev>>
  /\ UNCHANGED <<delegate, push_pull_req, pc, req, num_concurrent,
                 local_nodes, out, cached, calls, merged, path>>
  /\ UNCHANGED keyringVars
  /\ UNCHANGED clusterVars
  /\ UNCHANGED <<codecVars, packetVars, listenerVars, timeoutVars>>
  /\ UNCHANGED lockVars

InitTable ==
  /\ IdleKeyring
  /\ IdleCluster
  /\ delegate = FALSE
  /\ StartHandlers
  /\ IdleCodec
  /\ IdlePacket
  /\ IdleListener
  /\ timeout = MaxTimeout
  /\ NoDeadlines
  /\ broadcasts \in {[i \in NodeIds |-> NoNode],
                     [i \in NodeIds |-> IF i = LocalId THEN InitialNodes[i]
                                        ELSE NoNode]}
  /\ prev = [i \in NodeIds |-> NoNode]
  /\ pending = 0
  /\ last_out = [incarnation |-> 0, state |-> "None", pending |-> 0]

NextTable ==
  \/ \E r \in Updates : apply_alive(r)
  \/ \E r \in Updates : apply_suspect(r)
  \/ \E r \in Updates : apply_dead(r)
  \/ \E states \in Snapshots : PushPullMerge(states)
  \/ \E i \in NodeIds : GossipOut(i)

SpecTable == InitTable /\ [][NextTable]_vars

\* ------------------------------------------------------ stream_listener
\* the shutdown signal is delivered
ShutdownSignal ==
  /\ ~shutdown
  /\ shutdown' = TRUE
  /\ UNCHANGED <<listener, transport>>
  /\ UNCHANGED keyringVars
  /\ UNCHANGED clusterVars
  /\ UNCHANGED streamVars
  /\ UNCHANGED <<codecVars, packetVars, tableVars, timeoutVars>>
  /\ UNCHANGED lockVars

\* the transport's stream channel closes: recv() returns Err from now on
TransportFails ==
  /\ transport = "open"
  /\ transport' = "failed"
  /\ UNCHANGED <<listener, shutdown>>
  /\ UNCHANGED keyringVars
  /\ UNCHANGED clusterVars
  /\ UNCHANGED streamVars
  /\ UNCHANGED <<codecVars, packetVars, tableVars, timeoutVars>>
  /\ UNCHANGED lockVars

\* select!: shutdown_rx.recv() completed, the listener returns
ListenerShutdown ==
  /\ listener = "running"
  /\ shutdown
  /\ listener' = "exited"
  /\ UNCHANGED <<shutdown, transport>>
  /\ UNCHANGED keyringVars
  /\ UNCHANGED clusterVars
  /\ UNCHANGED streamVars
  /\ UNCHANGED <<codecVars, packetVars, tableVars, timeoutVars>>
  /\ UNCHANGED lockVars

\* select!: transport_rx.recv() returned Err, the listener logs and returns
ListenerRecvFailed ==
  /\ listener = "running"
  /\ transport = "failed"
  /\ listener' = "exited"
  /\ UNCHANGED <<shutdown, transport>>
  /\ UNCHANGED keyringVars
  /\ UNCHANGED clusterVars
  /\ UNCHANGED streamVars
  /\ UNCHANGED <<codecVars, packetVars, tableVars, timeoutVars>>
  /\ UNCHANGED lockVars

\* The listener and the handlers it spawns, until shutdown or a failing
\* transport. select! takes a ready arm at random, so an arm that stays ready
\* is taken in the end: weak fairness of the two arms that return.
NextListener ==
  \/ \E h \in Conns : Accept(h)
  \/ \E h \in Conns, m \in StreamRequests, ok \in BOOLEAN : ReadFailed(h, m, ok)
  \/ \E h \in Conns, m \in PingRequests, ok \in BOOLEAN : HandlePing(h, m, ok)
  \/ ShutdownSignal
  \/ TransportFails
  \/ ListenerShutdown
  \/ ListenerRecvFailed

SpecListener ==
  /\ InitStream
  /\ [][NextListener]_vars
  /\ WF_vars(ListenerShutdown)
  /\ WF_vars(ListenerRecvFailed)

\* ------------------------------------------------------------- timeouts
\* the peer of a connection being read never sends a complete frame
PeerStalls(h) ==
  /\ pc[h] = "read"
  /\ pc' = [pc EXCEPT ![h] = "read_stalled"]
  /\ stalled' = stalled \cup {h}
  /\ UNCHANGED <<delegate, nodes, push_pull_req, req, num_concurrent,
                 local_nodes, out, cached, calls, merged, path>>
  /\ UNCHANGED <<timeout, deadline>>
  /\ UNCHANGED keyringVars
  /\ UNCHANGED clusterVars
  /\ UNCHANGED <<codecVars, packetVars, tableVars, listenerVars>>
  /\ UNCHANGED lockVars

\* the deadline of the connection passes: read_message returns a timeout
\* error, which takes the Err arm of handle_conn
ReadTimeout(h, ok) ==
  /\ pc[h] = "read_stalled"
  /\ deadline[h] # <<>>
  /\ req' = [req EXCEPT ![h] =
       Request("Err", "timeout", LocalId, 0, FALSE, <<>>, <<>>)]
  /\ out' = [out EXCEPT ![h] = Append(out[h], ErrorResponse("timeout", ok))]
  /\ Return(h, "read_failed")
  /\ UNCHANGED <<delegate, nodes, push_pull_req, cached, calls, merged>>
  /\ UNCHANGED keyringVars
  /\ UNCHANGED clusterVars
  /\ UNCHANGED <<codecVars, packetVars, tableVars, listenerVars, timeoutVars>>
  /\ UNCHANGED lockVars

\* Handlers under every configured timeout, Duration::ZERO included, with
\* peers that may stall. A deadline that is set passes: weak fairness of
\* ReadTimeout for each connection.
InitTimeout ==
  /\ IdleKeyring
  /\ IdleCluster
  /\ delegate = FALSE
  /\ StartHandlers
  /\ IdleCodec
  /\ IdlePacket
  /\ IdleTable
  /\ IdleListener
  /\ timeout \in 0..MaxTimeout
  /\ NoDeadlines

NextTimeout ==
  \/ \E h \in Conns : Accept(h)
  \/ \E h \in Conns : PeerStalls(h)
  \/ \E h \in Conns, ok \in BOOLEAN : ReadTimeout(h, ok)
  \/ \E h \in Conns, m \in StreamRequests, ok \in BOOLEAN : ReadFailed(h, m, ok)
  \/ \E h \in Conns, m \in PingRequests, ok \in BOOLEAN : HandlePing(h, m, ok)

SpecTimeout ==
  /\ InitTimeout
  /\ [][NextTimeout]_vars
  /\ \A h \in Conns : WF_vars(\E ok \in BOOLEAN : ReadTimeout(h, ok))

\* ------------------------------------------------------------------ claims
\* What the spec's "insertion order" predicts for the non-primary keys after
\* the last call: insert appends a new key at the tail, remove deletes in
\* place, use_key deletes the promoted key in place and adds the demoted
\* primary at the tail.
EntryOrder ==
  LET b == last.before
      k == last.key
  IN  CASE last.op = "insert" ->
             IF contains(b.keys, k) THEN b.keys ELSE Append(b.keys, k)
        [] last.op = "remove" /\ last.res = "Ok" -> shift_remove(b.keys, k)
        [] last.op = "use_key" /\ last.res = "Ok" /\ k # b.primary_key ->
             index_insert(shift_remove(b.keys, k), b.primary_key)
        [] OTHER -> b.keys

\* C1: whenever use_key(k) returned Ok, primary_key() is k right afterwards
\* (also when k already was the primary).
C1_UseKeySetsPrimary ==
  (last.op = "use_key" /\ last.res = "Ok") => primary_key(ring) = last.key

\* C1 witness: a use_key that promoted a non-primary key has returned Ok.
C1_Witness ==
  /\ last.op = "use_key" /\ last.res = "Ok"
  /\ last.key # last.before.primary_key
  /\ primary_key(ring) = last.key

\* C2: in every state reached by with_keys/new, insert, remove and use_key, the
\* first key yielded by keys() is primary_key().
C2_FirstKeyIsPrimary == keys(ring)[1] = primary_key(ring)

\* C2 witness: after a promoting use_key on a ring with several keys, the head
\* of keys() is the new primary.
C2_Witness ==
  /\ last.op = "use_key" /\ last.res = "Ok"
  /\ last.key # last.before.primary_key
  /\ Len(keys(ring)) >= 3
  /\ keys(ring)[1] = last.key

\* C3: remove(k) of the primary key returns RemovePrimaryKey and leaves the
\* primary and keys() as they were; remove(k) of any other key returns Ok and
\* afterwards k is not among keys().
C3_Remove ==
  last.op = "remove" =>
    IF last.key = last.before.primary_key
      THEN /\ last.res = "RemovePrimaryKey"
           /\ primary_key(ring) = primary_key(last.before)
           /\ keys(ring) = keys(last.before)
      ELSE /\ last.res = "Ok"
           /\ ~contains(keys(ring), last.key)

\* C3 witness: an installed non-primary key has been removed.
C3_Witness ==
  /\ last.op = "remove" /\ last.res = "Ok"
  /\ contains(last.before.keys, last.key)
  /\ ~contains(keys(ring), last.key)

\* C3 witness, failing branch: removing the primary was refused.
C3_WitnessPrimary ==
  /\ last.op = "remove" /\ last.res = "RemovePrimaryKey"
  /\ Len(last.before.keys) >= 1

\* C4: use_key(k) of a key that is neither the primary nor installed returns
\* SecretKeyNotFound and leaves the primary and keys() as they were.
C4_UseKeyNotFound ==
  (/\ last.op = "use_key"
   /\ last.key # last.before.primary_key
   /\ ~contains(last.before.keys, last.key))
  => /\ last.res = "SecretKeyNotFound"
     /\ primary_key(ring) = primary_key(last.before)
     /\ keys(ring) = keys(last.before)

\* C4 witness: use_key of a missing key on a ring that holds other keys.
C4_Witness ==
  /\ last.op = "use_key" /\ last.res = "SecretKeyNotFound"
  /\ Len(last.before.keys) >= 1

\* C5: keys() yields the primary first and then the other keys in the order in
\* which they entered the non-primary set (insert and the demotion in use_key
\* add at the tail; remove and use_key keep the order of the keys that stay).
C5_KeysInEntryOrder == keys(ring) = <<primary_key(ring)>> \o EntryOrder

\* C6: insert(k) of a key already on the ring (primary or not) changes neither
\* primary_key() nor keys(), and a second insert(k) changes nothing.
C6_InsertIdempotent ==
  last.op = "insert" =>
    /\ contains(keys(last.before), last.key) =>
         /\ primary_key(ring) = primary_key(last.before)
         /\ keys(ring) = keys(last.before)
    /\ insert(ring, last.key) = ring
\* C7: during a rotation K1 -> K2 in which every node completes insert(K2)
\* before any node calls use_key(K2), at every moment the primary key of every
\* sender is among keys() of every receiver, every message in flight can be
\* decrypted by its receiver, and no delivery is lost.
C7_RotationLosesNoMessage ==
  /\ \A s \in Nodes, r \in Nodes : decryptable(r, encrypt_key(s))
  /\ \A m \in net : decryptable(m.to, m.key)
  /\ delivery # "lost"

\* C7 witness: mid-rotation, a message encrypted with K2 is in flight to a node
\* still on K1, one encrypted with K1 is in flight to a node already on K2, and
\* a delivery has been decrypted.
C7_Witness ==
  /\ \E m \in net : m.key = K2 /\ primary_key(rings[m.to]) = K1
  /\ \E m \in net : m.key = K1 /\ primary_key(rings[m.to]) = K2
  /\ delivery = "decrypted"
\* ------------------------------------------------------ claims, stream
\* the handlers that passed the admission check and have not finished
Admitted ==
  {h \in Conns : pc[h] \in {"local_state", "merge", "notify_merge",
                            "merge_state", "merge_delegate"}}

HasSent(h, kind) == \E i \in 1..Len(out[h]) : out[h][i].kind = kind

\* C8: under every interleaving of the handlers, the push/pull requests that
\* passed the admission check and have not finished never number more than
\* MAX_PUSH_PULL_REQUESTS.
C8_PushPullLimit == Cardinality(Admitted) <= MAX_PUSH_PULL_REQUESTS

\* C8 witness: the limit is reached and a further request has been rejected.
C8_Witness ==
  /\ Cardinality(Admitted) = MAX_PUSH_PULL_REQUESTS
  /\ \E h \in Conns : path[h] = "rejected"

\* C9: a push/pull request rejected because too many are pending is answered
\* with an ErrorResponse before the connection is dropped.
C9_RejectedGetsErrorResponse ==
  \A h \in Conns : path[h] = "rejected" => HasSent(h, "ErrorResponse")

\* C10: when reading the request fails, the handler gives exactly one message
\* to send_message, an ErrorResponse with the error's text, and returns: no
\* Ack, no local state, no merge into the membership table, no delegate
\* callback, no pending push/pull counted, no cache_stream.
C10_ReadFailure ==
  \A h \in Conns : req[h].kind = "Err" =>
    /\ pc[h] = "done"
    /\ Len(out[h]) = 1
    /\ out[h][1].kind = "ErrorResponse"
    /\ out[h][1].err = req[h].err
    /\ ~merged[h]
    /\ nodes = [i \in NodeIds |->
         IF i = LocalId THEN [incarnation |-> 1, state |-> "Alive"] ELSE NoNode]
    /\ calls[h] = <<>>
    /\ push_pull_req = 0
    /\ ~cached[h]

\* C10 witness: a handler whose read failed has returned, with a delegate
\* present and the error response written.
C10_Witness ==
  /\ delegate
  /\ req[TheConn].kind = "Err" /\ req[TheConn].err = "decode"
  /\ path[TheConn] = "read_failed"
  /\ out[TheConn][1].ok

HasCalled(h, name) == \E i \in 1..Len(calls[h]) : calls[h][i].name = name

\* position of the first call of a callback, 0 when it was not called
CallIndex(h, name) ==
  IF HasCalled(h, name)
    THEN CHOOSE i \in 1..Len(calls[h]) :
           /\ calls[h][i].name = name
           /\ \A j \in 1..(i - 1) : calls[h][j].name # name
    ELSE 0

\* C11: with join = true and a delegate, notify_merge is invoked before any
\* received state is merged; when it fails the merge is aborted: merge_state
\* is not called, the table is unchanged, delegate.merge_remote_state is not
\* invoked. With join = false notify_merge is never invoked.
C11_NotifyMergeVeto ==
  \A h \in Conns :
    /\ pc[h] = "notify_merge" => ~merged[h] /\ ~HasCalled(h, "notify_merge")
    /\ (merged[h] /\ req[h].join /\ delegate) =>
         /\ HasCalled(h, "notify_merge")
         /\ HasCalled(h, "merge_remote_state") =>
              CallIndex(h, "notify_merge") < CallIndex(h, "merge_remote_state")
    /\ path[h] = "notify_merge_failed" =>
         /\ ~merged[h]
         /\ nodes = InitialNodes
         /\ ~HasCalled(h, "merge_remote_state")
    /\ ~req[h].join => ~HasCalled(h, "notify_merge")

\* C11 witness: a joining push/pull that would have changed the table was
\* vetoed by notify_merge.
C11_Witness ==
  /\ path[TheConn] = "notify_merge_failed"
  /\ req[TheConn].join
  /\ merge_state(nodes, req[TheConn].states) # nodes
  /\ req[TheConn].user_data # <<>>

\* C12: when verify_protocol fails the whole merge is rejected: no received
\* state is applied, notify_merge and delegate.merge_remote_state are not
\* invoked.
C12_VerifyFailureRejectsMerge ==
  \A h \in Conns : path[h] = "verify_failed" =>
    /\ ~merged[h]
    /\ nodes = InitialNodes
    /\ ~HasCalled(h, "notify_merge")
    /\ ~HasCalled(h, "merge_remote_state")

\* C12 witness: verification failed for a joining push/pull with a delegate
\* present, states that would have changed the table and user data.
C12_Witness ==
  /\ path[TheConn] = "verify_failed"
  /\ delegate /\ req[TheConn].join
  /\ merge_state(nodes, req[TheConn].states) # nodes
  /\ req[TheConn].user_data # <<>>

\* C13: a Ping for the local id is answered with exactly one Ack carrying the
\* ping's sequence number; a Ping for another id gets no reply and its
\* connection is not returned to the idle pool.
C13_PingAck ==
  \A h \in Conns : req[h].kind = "Ping" =>
    IF req[h].target = LocalId
      THEN /\ Len(out[h]) = 1
           /\ out[h][1].kind = "Ack"
           /\ out[h][1].seq_no = req[h].seq_no
      ELSE /\ out[h] = <<>>
           /\ ~cached[h]

\* C13 witness: a ping for the local id with the largest sequence number was
\* acknowledged.
C13_Witness ==
  /\ req[TheConn].kind = "Ping" /\ req[TheConn].target = LocalId
  /\ req[TheConn].seq_no = MaxSeq
  /\ out[TheConn] = <<Ack(MaxSeq, TRUE)>>

\* C13 witness, other branch: a ping for another id was dropped.
C13_WitnessWrongTarget ==
  /\ req[TheConn].kind = "Ping" /\ req[TheConn].target # LocalId
  /\ path[TheConn] = "wrong_target"

\* C20: the local state is snapshot and sent before the received state is
\* applied, so the reply holds the table as it was before the request; when
\* delegate.local_state or the send fails the handler returns without merging:
\* the table is unchanged and the connection is not cached.
C20_ReplyBeforeMerge ==
  \A h \in Conns :
    /\ \A i \in 1..Len(out[h]) :
         out[h][i].kind = "PushPull" => out[h][i].nodes = InitialNodes
    /\ merged[h] => /\ Len(out[h]) = 1
                    /\ out[h][1].kind = "PushPull" /\ out[h][1].ok
    /\ path[h] \in {"local_state_failed", "send_failed"} =>
         /\ ~merged[h]
         /\ nodes = InitialNodes
         /\ ~cached[h]

\* C20 witness: the request changed the table and the reply sent before it
\* holds the table without that change.
C20_Witness ==
  /\ merged[TheConn] /\ nodes # InitialNodes
  /\ out[TheConn][1].nodes = InitialNodes

\* C20 witness, failing branch: the send of the local state failed for a
\* request that would have changed the table.
C20_WitnessSendFailed ==
  /\ path[TheConn] = "send_failed"
  /\ merge_state(nodes, req[TheConn].states) # nodes

\* C16: for every id, the accepted records have non-decreasing incarnation,
\* and between two consecutive accepted records of equal incarnation the
\* state does not decrease in the order Alive < Suspect < Dead = Left.
C16_MonotonicIncarnation ==
  \A i \in NodeIds : prev[i] # NoNode =>
    /\ nodes[i].incarnation >= prev[i].incarnation
    /\ nodes[i].incarnation = prev[i].incarnation =>
         rank(nodes[i].state) >= rank(prev[i].state)

\* C16 witness: a peer's record was replaced at equal incarnation by a worse
\* state, and the local record by one of a greater incarnation.
C16_Witness ==
  /\ \E i \in NodeIds \ {LocalId} :
       /\ prev[i] # NoNode
       /\ nodes[i].incarnation = prev[i].incarnation
       /\ rank(nodes[i].state) > rank(prev[i].state)
  /\ prev[LocalId] # NoNode
  /\ nodes[LocalId].incarnation > prev[LocalId].incarnation

C15_ErrorResponseRoundTrip ==
  /\ written # 0 =>
       /\ written = encoded_len(ErrorResponse_new(err_msg))
       /\ Len(buf) = written
  /\ decoded.readed # 0 =>
       /\ decoded.readed = written
       /\ ErrorResponse_new(decoded.err) = ErrorResponse_new(err_msg)

\* C15 witness: a message of the greatest length holding a two-byte character
\* went through encode and decode.
C15_Witness ==
  /\ Len(err_msg) = MaxErrLen
  /\ \E i \in 1..Len(err_msg) : err_msg[i] >= 128
  /\ decoded.readed = Len(buf)
  /\ Len(buf) > 4 + MaxErrLen

\* C14: a compound datagram of n pings for the local node yields exactly n
\* Acks, one for each ping with that ping's sequence number and in the order
\* of the pings, under every combination of label, compression and
\* encryption.
C14_CompoundPings ==
  (\A i \in 1..Len(pings) : pings[i].target = LocalId) =>
    /\ ppc = "dispatch" =>
         /\ Len(replies) + Len(subs) = Len(pings)
         /\ \A i \in 1..Len(replies) : replies[i] = PacketAck(pings[i].seq_no)
    /\ ppc # "dispatch" => replies = <<>>

\* C14 witness: MaxPings pings for the local node, of different sequence
\* numbers, sent labelled, compressed and encrypted, were all dispatched.
C14_Witness ==
  /\ pkt_cfg = [label |-> TRUE, compression |-> TRUE, encryption |-> TRUE]
  /\ Len(pings) = MaxPings
  /\ \A i \in 1..Len(pings) : pings[i].target = LocalId
  /\ pings[1].seq_no # pings[MaxPings].seq_no
  /\ ppc = "dispatch" /\ subs = <<>>
  /\ Len(replies) = MaxPings

\* C14 witness, plain datagram: no label, no compression, no encryption.
C14_WitnessPlain ==
  /\ pkt_cfg = [label |-> FALSE, compression |-> FALSE, encryption |-> FALSE]
  /\ Len(pings) = MaxPings
  /\ \A i \in 1..Len(pings) : pings[i].target = LocalId
  /\ ppc = "dispatch" /\ subs = <<>>
  /\ Len(replies) = MaxPings

\* C18: once the shutdown signal is delivered the listener eventually exits,
\* and so it does once receiving from the transport's stream channel fails;
\* after it has exited it stays so and no connection is handed to a handler.
C18_ListenerExits ==
  /\ shutdown ~> (listener = "exited")
  /\ (transport = "failed") ~> (listener = "exited")
  /\ [][listener = "exited" =>
          /\ listener' = "exited"
          /\ \A h \in Conns : pc[h] = "idle" => pc'[h] = "idle"]_vars

\* C18 witness: the listener exited on the shutdown signal with the transport
\* still delivering, after a connection was handled and before another was
\* accepted.
C18_Witness ==
  /\ listener = "exited" /\ shutdown /\ transport = "open"
  /\ \E h \in Conns : pc[h] = "done"
  /\ \E h \in Conns : pc[h] = "idle"

\* C18 witness, failing transport: the listener exited with no shutdown
\* signal.
C18_WitnessRecvFailed ==
  /\ listener = "exited" /\ ~shutdown /\ transport = "failed"
  /\ \E h \in Conns : pc[h] = "idle"

C19_WitnessZero ==
  \E h \in Conns : timeout = 0 /\ pc[h] = "read_stalled" /\ deadline[h] = <<>>

\* C21: cache_stream is called only on success paths: for a Ping only when
\* the Ack was sent, for a PushPull only when the local state was sent and the
\* remote state merged without error; on every failing path the connection is
\* not cached.
C21_CacheOnlyOnSuccess ==
  \A h \in Conns : cached[h] => path[h] \in {"ack", "merged"}

\* the failing paths on which handle_conn does cache the connection: a failed
\* send of the Ack
C21_CachedAfterFailedAck ==
  \E h \in Conns :
    /\ cached[h] /\ path[h] = "ack_failed"
    /\ out[h] = <<Ack(req[h].seq_no, FALSE)>>

\* and a failed merge
C21_CachedAfterFailedMerge ==
  \E h \in Conns :
    /\ cached[h]
    /\ path[h] \in {"verify_failed", "notify_merge_failed",
                    "merge_delegate_failed"}

\* a handler that has called a delegate callback which has not yet returned:
\* local_state, notify_merge or merge_remote_state
InCallback(h) ==
  delegate /\ pc[h] \in {"local_state", "notify_merge", "merge_delegate"}

\* C22: a handler holds no guard of the membership table while one of its
\* delegate callbacks is running, so another handler that has reached its
\* merge can take the write lock and complete the merge.
C22_NoLockInCallback ==
  \A h \in Conns : InCallback(h) =>
    /\ holds[h] = "none"
    /\ \A j \in Conns \ {h} : pc[j] = "merge_state" => ENABLED MergeState(j)

\* C22 witness: while a handler is still inside local_state, another handler
\* has completed a merge that changed the table since the first handler's
\* snapshot.
C22_Witness ==
  \E h \in Conns, j \in Conns :
    /\ h # j
    /\ delegate /\ pc[h] = "local_state"
    /\ merged[j]
    /\ local_nodes[h] # nodes

\* how many times a callback was invoked by a handler
CallCount(h, name) ==
  Cardinality({i \in 1..Len(calls[h]) : calls[h][i].name = name})

\* C23: when merge_remote_state is not aborted, the membership states are
\* merged first and then delegate.merge_remote_state is invoked exactly once
\* if and only if a delegate is present and the received user_data is not
\* empty, with the join flag of the frame; its failure does not undo the merge.
C23_DelegateMergeAfterStateMerge ==
  \A h \in Conns :
    /\ HasCalled(h, "merge_remote_state") =>
         /\ merged[h]
         /\ CallCount(h, "merge_remote_state") = 1
         /\ calls[h][CallIndex(h, "merge_remote_state")].join = req[h].join
    /\ (merged[h] /\ pc[h] = "done") =>
         (HasCalled(h, "merge_remote_state")
            <=> (delegate /\ req[h].user_data # <<>>))
    /\ merged[h] => nodes = merge_state(InitialNodes, req[h].states)
    /\ path[h] = "merge_delegate_failed" =>
         /\ merged[h]
         /\ HasCalled(h, "merge_remote_state")

\* C23 witness: delegate.merge_remote_state failed for a joining push/pull
\* whose states changed the table, and the change is still there.
C23_Witness ==
  /\ path[TheConn] = "merge_delegate_failed"
  /\ req[TheConn].join
  /\ nodes # InitialNodes
  /\ nodes = merge_state(InitialNodes, req[TheConn].states)

\* C23 witness, no call: a merge with a delegate and empty user data ended
\* without the delegate's merge_remote_state.
C23_WitnessEmptyUserData ==
  /\ delegate /\ merged[TheConn] /\ pc[TheConn] = "done"
  /\ req[TheConn].user_data = <<>>
  /\ ~HasCalled(TheConn, "merge_remote_state")

\* the handlers that have incremented push_pull_req and not yet returned
InFlight ==
  {h \in Conns : pc[h] \in {"pp_check", "local_state", "merge", "notify_merge",
                            "merge_state", "merge_delegate"}}

\* C24: push_pull_req equals the number of PushPull handlers that have
\* incremented it and not yet returned, so it is 0 whenever none is in
\* flight, whichever way the handlers ended.
C24_CounterBalanced ==
  /\ push_pull_req = Cardinality(InFlight)
  /\ InFlight = {} => push_pull_req = 0

\* C24 witness: every handler has returned, one of them rejected, one after a
\* failed send of the local state, and the counter is back at 0.
C24_Witness ==
  /\ \A h \in Conns : pc[h] = "done"
  /\ \E h \in Conns : path[h] = "rejected"
  /\ \E h \in Conns : path[h] = "send_failed"
  /\ push_pull_req = 0

\* C25: after a successful use_key(k) with k other than the old primary, the
\* old primary is still yielded by keys() and keys() yields the same set of
\* keys as before the call; a failing use_key changes nothing.
C25_UseKeyLosesNoKey ==
  last.op = "use_key" =>
    IF last.res = "Ok"
      THEN /\ last.key # last.before.primary_key =>
                contains(keys(ring), last.before.primary_key)
           /\ Range(keys(ring)) = Range(keys(last.before))
      ELSE ring = last.before

\* C25 witness: a key was promoted on a ring holding two more keys besides
\* the primary.
C25_Witness ==
  /\ last.op = "use_key" /\ last.res = "Ok"
  /\ last.key # last.before.primary_key
  /\ Cardinality(Range(keys(last.before))) >= 3
  /\ primary_key(ring) = last.key

\* C25 witness, failing call: use_key of a key that is not installed.
C25_WitnessNotFound ==
  /\ last.op = "use_key" /\ last.res = "SecretKeyNotFound"
  /\ Len(last.before.keys) >= 2

\* C26: the primary key is never a member of the non-primary set, so keys()
\* yields no key twice and the number of keys on the ring is the size of the
\* non-primary set plus one.
C26_PrimaryNotInSet ==
  /\ ~contains(ring.keys, ring.primary_key)
  /\ \A i \in 1..Len(keys(ring)), j \in 1..Len(keys(ring)) :
       i # j => keys(ring)[i] # keys(ring)[j]
  /\ Cardinality(Range(keys(ring))) = Len(ring.keys) + 1

\* the keys with_keys(primary, ks) is to hold besides the primary: the
\* distinct keys of ks other than primary
OtherKeys(p, ks) == Range(ks) \ {p}

\* C27: with_keys(primary, ks) builds a ring whose primary_key() is primary
\* and whose keys() yields primary first and then exactly the distinct keys
\* of ks other than primary, whatever the iterator's size_hint.
C27_WithKeys ==
  last.op = "with_keys" =>
    /\ primary_key(ring) = last.key
    /\ keys(ring)[1] = last.key
    /\ Range(Tail(keys(ring))) = OtherKeys(last.key, last.ks)
    /\ Len(Tail(keys(ring))) = Cardinality(OtherKeys(last.key, last.ks))

\* the ring C27 does not hold for: an iterator that yields keys other than
\* the primary and whose size_hint has the lower bound 0
C27_KeysDropped ==
  /\ last.op = "with_keys" /\ last.hint = 0
  /\ OtherKeys(last.key, last.ks) # {}
  /\ keys(ring) = <<last.key>>

====
